---------------------------- MODULE Spec2Model ----------------------------
(***************************************************************************)
(* A model of stardicter's StardictWriter (src/stardicter/base.py): the    *)
(* parse -> sort -> format -> write pipeline and the checksum cache.       *)
(*                                                                         *)
(* Text is a sequence of Unicode code points, bytes are a sequence of      *)
(* numbers 0..255.  A Word is a record of five texts.  A list of Word      *)
(* objects is a sequence of records; a bucket of formatentry holds the     *)
(* positions of its Words in that list (the objects' identities).          *)
(***************************************************************************)
EXTENDS Integers, Sequences, FiniteSets, TLC

(***************************************************************************)
(* Bounds of the model.                                                    *)
(***************************************************************************)
MaxEntryWords == 2
MaxSortKeys == 3
MaxSourceLines == 2
MaxGuardLines == 2
MaxChecksumLines == 2
NumWriters == 2

(***************************************************************************)
(* Generic helpers on sequences.                                           *)
(***************************************************************************)
Range(s) == {s[i] : i \in 1..Len(s)}

InSeq(x, s) == \E i \in 1..Len(s) : s[i] = x

Min(S) == CHOOSE x \in S : \A y \in S : x <= y

SeqsUpTo(S, n) == UNION {[1..k -> S] : k \in 0..n}

\* The orders in which iterating over a mapping with these keys can yield them.
IterationOrders(keys) ==
    {o \in [1..Cardinality(keys) -> keys] : Range(o) = keys}

\* Lexicographic order on sequences of numbers, as Python compares str with
\* str and bytes with bytes.
LexLess(a, b) ==
    LET n    == IF Len(a) < Len(b) THEN Len(a) ELSE Len(b)
        diff == {i \in 1..n : a[i] # b[i]}
    IN  IF diff = {} THEN Len(a) < Len(b) ELSE a[Min(diff)] < b[Min(diff)]

\* The members of a set of numbers in increasing order.
Sorted(S) ==
    [n \in 1..Cardinality(S) |->
        CHOOSE p \in S : Cardinality({q \in S : q < p}) = n - 1]

(***************************************************************************)
(* Text constants of the source, as code points.                           *)
(***************************************************************************)
T_n       == <<110, 58>>                              \* 'n:'
T_v       == <<118, 58>>                              \* 'v:'
T_adj     == <<97, 100, 106, 58>>                     \* 'adj:'
T_adv     == <<97, 100, 118, 58>>                     \* 'adv:'
T_prep    == <<112, 114, 101, 112, 58>>               \* 'prep:'
T_conj    == <<99, 111, 110, 106, 58>>                \* 'conj:'
T_interj  == <<105, 110, 116, 101, 114, 106, 58>>     \* 'interj:'
T_num     == <<110, 117, 109, 58>>                    \* 'num:'
T_none    == <<>>                                     \* ''

\* alltypes of formatentry, in its fixed order.
alltypes == <<T_n, T_v, T_adj, T_adv, T_prep, T_conj, T_interj, T_num, T_none>>

\* '[neprav.]'
IRREGULAR == <<91, 110, 101, 112, 114, 97, 118, 46, 93>>

\* FMT_TYPE = '<span size="larger" color="darkred" weight="bold">{0}</span>\n'
FMT_TYPE(typ) ==
    <<60, 115, 112, 97, 110, 32, 115, 105, 122, 101, 61, 34, 108, 97, 114,
      103, 101, 114, 34, 32, 99, 111, 108, 111, 114, 61, 34, 100, 97, 114,
      107, 114, 101, 100, 34, 32, 119, 101, 105, 103, 104, 116, 61, 34, 98,
      111, 108, 100, 34, 62>>
    \o typ \o <<60, 47, 115, 112, 97, 110, 62, 10>>

(***************************************************************************)
(* str.split() and ' '.join().                                             *)
(***************************************************************************)
\* The characters str.split() treats as separators (those that can occur).
IsSpace(c) == c \in {9, 10, 11, 12, 13, 32}

\* text.split(): the maximal runs of non-space characters, in order.
split(text) ==
    LET starts == {i \in 1..Len(text) :
                      ~IsSpace(text[i]) /\ (i = 1 \/ IsSpace(text[i - 1]))}
        end(i) == Min({j \in i..Len(text) :
                      j = Len(text) \/ IsSpace(text[j + 1])})
        first  == Sorted(starts)
    IN  [n \in 1..Len(first) |-> SubSeq(text, first[n], end(first[n]))]

\* ' '.join(tokens)
RECURSIVE join(_)
join(tokens) ==
    IF tokens = <<>> THEN <<>>
    ELSE IF Len(tokens) = 1 THEN tokens[1]
    ELSE tokens[1] \o <<32>> \o join(Tail(tokens))

(***************************************************************************)
(* The Word model (stardicter/word.py).                                    *)
(***************************************************************************)
Word(w, t, ty, n, a) ==
    [word |-> w, translation |-> t, wtype |-> ty, note |-> n, author |-> a]

\* Word.reverse(): a new Word with word and translation swapped.
WordReverse(w) == Word(w.translation, w.word, w.wtype, w.note, w.author)

\* Word.format(): one display line: the translation, the remaining wtype in
\* parentheses, the note, a line break.
WordFormat(w) ==
    w.translation
    \o (IF w.wtype = <<>> THEN <<>> ELSE <<32, 40>> \o w.wtype \o <<41>>)
    \o (IF w.note = <<>> THEN <<>> ELSE <<32>> \o w.note)
    \o <<10>>

(***************************************************************************)
(* StardictWriter.formatentry.                                             *)
(***************************************************************************)
\* A variant that takes the last matching key of alltypes.
LastKey(tokens) ==
    LET hits == {k \in 1..Len(alltypes) : InSeq(alltypes[k], tokens)}
    IN  IF hits = {} THEN 0 ELSE CHOOSE k \in hits : \A j \in hits : j <= k

\* The loop "for key in alltypes: if key in tokens: ... break": the position
\* in alltypes of the first key that is one of the tokens, 0 when none is.
FirstKey(tokens) ==
    LET hits == {k \in 1..Len(alltypes) : InSeq(alltypes[k], tokens)}
    IN  IF hits = {} THEN 0 ELSE Min(hits)

\* del tokens[tokens.index(key)]
DelFirst(tokens, key) ==
    LET i == Min({j \in 1..Len(tokens) : tokens[j] = key})
    IN  SubSeq(tokens, 1, i - 1) \o SubSeq(tokens, i + 1, Len(tokens))

EmptyTyped == [key \in Range(alltypes) |-> <<>>]

\* One pass of "for word in words" on the Word at position i: st holds the
\* list of Words (their wtype is assigned to) and the buckets.
Classify(st, i) ==
    LET word   == st.words[i]
        tokens == split(word.wtype)
        k      == FirstKey(tokens)
    IN  IF k = 0
        THEN [st EXCEPT !.typed[T_none] = Append(@, i)]
        ELSE LET key  == alltypes[k]
                 rest == DelFirst(tokens, key)
             IN  [words |-> [st.words EXCEPT ![i].wtype = join(rest)],
                  typed |-> [st.typed EXCEPT ![key] =
                                IF InSeq(IRREGULAR, rest)
                                THEN <<i>> \o @
                                ELSE Append(@, i)]]

RECURSIVE ClassifyAll(_, _)
ClassifyAll(st, i) ==
    IF i > Len(st.words) THEN st ELSE ClassifyAll(Classify(st, i), i + 1)

\* "for word in typed[typ]: result += '    '; result += word.format()"
RECURSIVE FormatBucket(_, _)
FormatBucket(words, bucket) ==
    IF bucket = <<>> THEN <<>>
    ELSE <<32, 32, 32, 32>> \o WordFormat(words[Head(bucket)])
         \o FormatBucket(words, Tail(bucket))

\* "for typ in alltypes: if len(typed[typ]) > 0: ..." from position k on.
RECURSIVE FormatTypes(_, _)
FormatTypes(st, k) ==
    IF k > Len(alltypes) THEN <<>>
    ELSE LET typ == alltypes[k]
         IN  (IF Len(st.typed[typ]) > 0
              THEN (IF typ = T_none THEN <<10>> ELSE FMT_TYPE(typ))
                   \o FormatBucket(st.words, st.typed[typ])
              ELSE <<>>)
             \o FormatTypes(st, k + 1)

\* formatentry(words): the text returned, the Words as the call leaves them
\* and the buckets it built.
formatentry(words) ==
    LET st == ClassifyAll([words |-> words, typed |-> EmptyTyped], 1)
    IN  [result |-> FormatTypes(st, 1), words |-> st.words, typed |-> st.typed]

(***************************************************************************)
(* Encodings.                                                              *)
(***************************************************************************)
\* Concatenation of a sequence of sequences, by halves.
RECURSIVE Flatten(_)
Flatten(ss) ==
    IF Len(ss) = 0 THEN <<>>
    ELSE IF Len(ss) = 1 THEN ss[1]
    ELSE LET h == Len(ss) \div 2
         IN  Flatten(SubSeq(ss, 1, h)) \o Flatten(SubSeq(ss, h + 1, Len(ss)))

\* The UTF-8 bytes of one code point (up to three bytes).
Utf8Char(c) ==
    IF c < 128 THEN <<c>>
    ELSE IF c < 2048 THEN <<192 + (c \div 64), 128 + (c % 64)>>
    ELSE <<224 + (c \div 4096), 128 + ((c \div 64) % 64), 128 + (c % 64)>>

\* text.encode('utf-8')
EncodeUtf8(text) == Flatten([i \in 1..Len(text) |-> Utf8Char(text[i])])

\* The 'deaccent' error handler of the codec: what replaces a character
\* that ASCII cannot hold: the base letter of an accented one, else nothing.
Deaccent(c) ==
    CASE c = 225 -> <<97>>       \* a acute -> a
      [] c = 193 -> <<65>>       \* A acute -> A
      [] c = 233 -> <<101>>      \* e acute -> e
      [] c = 269 -> <<99>>       \* c caron -> c
      [] OTHER   -> <<>>

\* text.encode('ascii', 'deaccent')
EncodeAscii(text) ==
    Flatten([i \in 1..Len(text) |->
                IF text[i] < 128 THEN <<text[i]>> ELSE Deaccent(text[i])])

\* bytes.lower(): only the ASCII capitals change.
LowerBytes(bytes) ==
    [i \in 1..Len(bytes) |->
        IF bytes[i] >= 65 /\ bytes[i] <= 90 THEN bytes[i] + 32 ELSE bytes[i]]

(***************************************************************************)
(* StardictWriter.getsortedwords.                                          *)
(***************************************************************************)
\* The sort key of an item: item.encode(...).lower()
SortKey(isAscii, item) ==
    IF isAscii THEN LowerBytes(EncodeAscii(item)) ELSE LowerBytes(EncodeUtf8(item))

\* A comparison that looks at the sort key only.
TupleLessKeyOnly(a, b) == LexLess(a[1], b[1])

\* (key, item) < (key', item') as Python compares tuples: by the first
\* components, and by the second when those are equal.
TupleLess(a, b) ==
    IF a[1] # b[1] THEN LexLess(a[1], b[1]) ELSE LexLess(a[2], b[2])

\* list.sort(): a stable sort by <; here by insertion.
InsertSorted(sorted, x) ==
    LET after == {i \in 1..Len(sorted) : TupleLess(x, sorted[i])}
        at    == IF after = {} THEN Len(sorted) + 1 ELSE Min(after)
    IN  SubSeq(sorted, 1, at - 1) \o <<x>> \o SubSeq(sorted, at, Len(sorted))

RECURSIVE SortTuples(_)
SortTuples(tuples) ==
    IF tuples = <<>> THEN <<>>
    ELSE InsertSorted(SortTuples(SubSeq(tuples, 1, Len(tuples) - 1)),
                      tuples[Len(tuples)])

\* getsortedwords(words): order is the sequence in which iterating over the
\* mapping yields its keys.
getsortedwords(isAscii, order) ==
    LET tuples == [i \in 1..Len(order) |-> <<SortKey(isAscii, order[i]), order[i]>>]
        sorted == SortTuples(tuples)
    IN  [i \in 1..Len(sorted) |-> sorted[i][2]]

(***************************************************************************)
(* StardictWriter.parse.                                                   *)
(***************************************************************************)
\* The key length at which parse stops storing a Word under a key.
KEYLEN == 256

EmptyMap == [key \in {} |-> <<>>]

\* text.split('\t')
SplitTabs(text) ==
    LET tabs == Sorted({i \in 1..Len(text) : text[i] = 9})
    IN  [n \in 1..(Len(tabs) + 1) |->
            SubSeq(text,
                   (IF n = 1 THEN 0 ELSE tabs[n - 1]) + 1,
                   (IF n > Len(tabs) THEN Len(text) + 1 ELSE tabs[n]) - 1)]

\* Word.from_slovnik(line): the five tab-separated fields of a line; a line
\* of another shape gives a Word with nothing in it, which parse drops.
from_slovnik(line) ==
    LET f == SplitTabs(line)
    IN  IF Len(f) = 5 THEN Word(f[1], f[2], f[3], f[4], f[5])
        ELSE Word(<<>>, <<>>, <<>>, <<>>, <<>>)

parse_line(line) == <<from_slovnik(line)>>

\* line.strip() == ''
IsBlank(line) == \A i \in 1..Len(line) : IsSpace(line[i])

\* is_header_line(line): line[0] == '#'
is_header_line(line) == line[1] = 35

\* A guard that lets a key of KEYLEN characters through.
KeyFitsInclusive(text) == Len(text) <= KEYLEN

\* len(word.word) < 256, len(word.translation) < 256
KeyFits(text) == Len(text) < KEYLEN

\* "if key not in mapping: mapping[key] = []" and "mapping[key].append(word)"
AddWord(mapping, key, word) ==
    IF key \in DOMAIN mapping
    THEN [mapping EXCEPT ![key] = Append(@, word)]
    ELSE mapping @@ (key :> <<word>>)

\* The body of "for word in words" in parse; st holds words and reverse.
StoreWord(st, bidir, word) ==
    IF word.word = <<>> \/ word.translation = <<>>
    THEN st
    ELSE [st EXCEPT
            !.words   = IF KeyFits(word.word)
                        THEN AddWord(@, word.word, word) ELSE @,
            !.reverse = IF bidir /\ KeyFits(word.translation)
                        THEN AddWord(@, word.translation, WordReverse(word))
                        ELSE @]

RECURSIVE StoreWords(_, _, _)
StoreWords(st, bidir, ws) ==
    IF ws = <<>> THEN st
    ELSE StoreWords(StoreWord(st, bidir, Head(ws)), bidir, Tail(ws))

\* The body of "for line in self.lines" in parse.
ParseLine(st, bidir, line) ==
    IF IsBlank(line) THEN st
    ELSE IF is_header_line(line)
    THEN [st EXCEPT !.description = @ \o SubSeq(line, 2, Len(line)) \o <<10>>]
    ELSE StoreWords(st, bidir, parse_line(line))

RECURSIVE ParseLines(_, _, _)
ParseLines(st, bidir, ls) ==
    IF ls = <<>> THEN st
    ELSE ParseLines(ParseLine(st, bidir, Head(ls)), bidir, Tail(ls))

\* list.sort(key=attrgetter('translation')): stable, by insertion.
RECURSIVE SortByTranslation(_)
SortByTranslation(ws) ==
    IF ws = <<>> THEN <<>>
    ELSE LET x      == ws[Len(ws)]
             sorted == SortByTranslation(SubSeq(ws, 1, Len(ws) - 1))
             after  == {i \in 1..Len(sorted) :
                          LexLess(x.translation, sorted[i].translation)}
             at     == IF after = {} THEN Len(sorted) + 1 ELSE Min(after)
         IN  SubSeq(sorted, 1, at - 1) \o <<x>> \o SubSeq(sorted, at, Len(sorted))

\* parse(): the writer's words, reverse and description after the call.
parse(st, bidir, ls) ==
    LET read == ParseLines(st, bidir, ls)
    IN  [words       |-> [k \in DOMAIN read.words |->
                              SortByTranslation(read.words[k])],
         reverse     |-> [k \in DOMAIN read.reverse |->
                              SortByTranslation(read.reverse[k])],
         description |-> read.description]

(***************************************************************************)
(* StardictWriter.convert, write_words, write_dict.                        *)
(***************************************************************************)
\* STRIPTAGS.sub('', text) with STRIPTAGS = re.compile(r"<.*?>", re.DOTALL):
\* from position from on, every '<' up to the next '>' is taken out.
RECURSIVE StripTagsFrom(_, _)
StripTagsFrom(text, from) ==
    LET opens == {i \in from..Len(text) :
                    text[i] = 60 /\ \E j \in (i + 1)..Len(text) : text[j] = 62}
    IN  IF opens = {} THEN SubSeq(text, from, Len(text))
        ELSE LET i == Min(opens)
                 j == Min({c \in (i + 1)..Len(text) : text[c] = 62})
             IN  SubSeq(text, from, i - 1) \o StripTagsFrom(text, j + 1)

\* convert(text): the bytes written for a text.
convert(isAscii, isNotags, text) ==
    LET t == IF isNotags THEN StripTagsFrom(text, 1) ELSE text
    IN  IF isAscii THEN EncodeAscii(t) ELSE EncodeUtf8(t)

\* struct.pack(b'!I', n): four bytes, most significant first.
Pack(n) ==
    <<(n \div 16777216) % 256, (n \div 65536) % 256, (n \div 256) % 256, n % 256>>

\* An offset that counts one byte too many per entry.
NextOffsetOffByOne(offset, entry) == offset + Len(entry) + 1

\* offset += len(entry)
NextOffset(offset, entry) == offset + Len(entry)

\* The body of "for key in self.getsortedwords(words)" in write_words; out
\* holds the two streams, the counters and the mapping (formatentry assigns
\* to the wtype of its Words).
WriteEntry(out, isAscii, isNotags, key) ==
    LET fe    == formatentry(out.mapping[key])
        entry == convert(isAscii, isNotags, fe.result)
    IN  [dict    |-> out.dict \o entry,
         idx     |-> out.idx \o convert(isAscii, isNotags, key) \o <<0>>
                     \o Pack(out.offset) \o Pack(Len(entry)),
         offset  |-> NextOffset(out.offset, entry),
         count   |-> out.count + 1,
         mapping |-> [out.mapping EXCEPT ![key] = fe.words]]

RECURSIVE WriteEntries(_, _, _, _)
WriteEntries(out, isAscii, isNotags, keys) ==
    IF keys = <<>> THEN out
    ELSE WriteEntries(WriteEntry(out, isAscii, isNotags, Head(keys)),
                      isAscii, isNotags, Tail(keys))

\* write_words(basefilename, name, words): the three files written (of the
\* .ifo its two computed fields) and the mapping as the call leaves it.
\* order is the order in which iterating over the mapping yields its keys.
write_words(isAscii, isNotags, mapping, order) ==
    LET out == WriteEntries([dict |-> <<>>, idx |-> <<>>, offset |-> 0,
                             count |-> 0, mapping |-> mapping],
                            isAscii, isNotags, getsortedwords(isAscii, order))
    IN  [dict    |-> out.dict,
         idx     |-> out.idx,
         ifo     |-> [wordcount |-> out.count, idxfilesize |-> Len(out.idx)],
         mapping |-> out.mapping]

NoFile == [dict |-> <<>>, idx |-> <<>>, ifo |-> [wordcount |-> 0, idxfilesize |-> 0]]

FileOf(w) == [dict |-> w.dict, idx |-> w.idx, ifo |-> w.ifo]

(***************************************************************************)
(* StardictWriter.get_checksum.                                            *)
(***************************************************************************)
\* is_data_line(line) of StardictWriter.
is_data_line(line) == TRUE

\* is_data_line(line) of a writer whose source carries volatile lines (a
\* time stamp): lines that start with '#' are left out of the checksum.
is_data_line_override(line) == ~(Len(line) > 0 /\ line[1] = 35)

\* self.is_data_line(line), by the class of the writer.
IsDataLine(kind, line) ==
    IF kind = "generic" THEN is_data_line(line) ELSE is_data_line_override(line)

\* hashlib.md5 ... hexdigest(), taken to be free of collisions: the digest
\* stands for the bytes it was fed.
md5_hexdigest(bytes) == [md5 |-> bytes]

\* A checksum over all lines, data lines or not.
get_checksum_all_lines(kind, ls) ==
    md5_hexdigest(Flatten([i \in 1..Len(ls) |-> EncodeUtf8(ls[i])]))

\* get_checksum(): md5.update(line.encode('utf-8')) for every data line.
get_checksum(kind, ls) ==
    md5_hexdigest(Flatten([i \in 1..Len(ls) |->
                              IF IsDataLine(kind, ls[i])
                              THEN EncodeUtf8(ls[i]) ELSE <<>>]))

NoSum == [set |-> FALSE, value |-> md5_hexdigest(<<>>)]

(***************************************************************************)
(* The checksum cache: get_config_key, load_config, save_config,           *)
(* was_changed, save_checksum.                                             *)
(***************************************************************************)
\* get_filename(forward=True) of a writer with the class attributes
\* prefix = '', source = 'aa', target = 'bb'.
get_filename(w) ==
    "" \o ("aa" \o "-" \o "bb")
    \o ((IF w.ascii THEN "-ascii" ELSE "") \o (IF w.notags THEN "-notags" ELSE ""))

\* get_config_key(): 'md5-{0}{1}'.format(self.keyprefix, self.get_filename())
get_config_key(w) == "md5-" \o w.keyprefix \o get_filename(w)

EmptyCfg == [key \in {} |-> md5_hexdigest(<<>>)]

\* The content of CONFIGFILE: no file, text that is no JSON, or a JSON
\* value: an object, an array of strings, a number or null.
CacheFile(kind, map, items) == [kind |-> kind, map |-> map, items |-> items]

\* A Python value json.load can return: a dict, a list, an int or None.
PyValue(type, map, items) == [type |-> type, map |-> map, items |-> items]

\* json.load(handle)
json_load(file) ==
    CASE file.kind = "object" -> PyValue("dict", file.map, <<>>)
      [] file.kind = "array"  -> PyValue("list", EmptyCfg, file.items)
      [] file.kind = "number" -> PyValue("int", EmptyCfg, <<>>)
      [] file.kind = "null"   -> PyValue("None", EmptyCfg, <<>>)

\* load_config(): open raises IOError without a file, json.load raises
\* ValueError on text that is no JSON; both give {}.
load_config(file) ==
    IF file.kind \in {"missing", "garbage"}
    THEN PyValue("dict", EmptyCfg, <<>>)
    ELSE json_load(file)

\* json.dump(config, handle, indent=2) into the file opened with 'wb'.
json_dump(map) == CacheFile("object", map, <<>>)

\* An update that throws away what was loaded.
UpdateReplace(config, changes) == changes

\* config.update(changes) on a dict.
Update(config, changes) ==
    [k \in DOMAIN config \cup DOMAIN changes |->
        IF k \in DOMAIN changes THEN changes[k] ELSE config[k]]

\* A save_config that reads the file again at the moment it writes it.
save_reloaded(file, config, changes) ==
    IF load_config(file).type = "dict"
    THEN [raised |-> FALSE,
          file |-> json_dump(Update(load_config(file).map, changes))]
    ELSE [raised |-> TRUE, file |-> file]

\* The rest of save_config once config is loaded: config.update(changes)
\* raises AttributeError on a value that is no dict, and then the file is
\* not opened; else the file is written anew.
save_loaded(file, config, changes) ==
    IF config.type = "dict"
    THEN [raised |-> FALSE, file |-> json_dump(Update(config.map, changes))]
    ELSE [raised |-> TRUE, file |-> file]

\* save_config(changes)
save_config(file, changes) == save_loaded(file, load_config(file), changes)

\* was_changed(): "True", "False", or "raised" when a TypeError leaves it:
\* "key not in config" on an int or None, config[key] on a list.
was_changed(file, key, checksum) ==
    LET config == load_config(file)
    IN  CASE config.type = "dict" ->
                IF key \notin DOMAIN config.map THEN "True"
                ELSE IF checksum # config.map[key] THEN "True" ELSE "False"
          [] config.type = "list" ->
                IF ~InSeq(key, config.items) THEN "True" ELSE "raised"
          [] OTHER -> "raised"

(***************************************************************************)
(* State.                                                                  *)
(***************************************************************************)
VARIABLES
    fwords,     \* the list of Words handed to formatentry (live objects)
    fprev,      \* the same list as it was before the last call
    fres,       \* what the last call of formatentry returned
    fcalled,    \* whether formatentry has been called
    ascii,      \* the writer's ascii option
    skeys,      \* the keys of the mapping handed to getsortedwords, in the
                \* order in which iterating over the mapping yields them
    sres,       \* what the last call of getsortedwords returned
    scalled,    \* whether getsortedwords has been called
    lines,      \* the writer's source: self.lines
    notags,     \* the writer's notags option
    bidirectional,  \* the writer's bidirectional attribute
    words,      \* self.words: headword -> list of Words
    reverse,    \* self.reverse: translation -> list of reversed Words
    description,    \* self.description
    phase,      \* "new", "parsed", "written" (write_dict called once on
                \* this writer) or "rewritten" (more than once)
    files,      \* the files on disk: README, forward and reverse package
    firstFiles, \* the files as the first write_dict of all left them
    written,    \* whether write_dict has been called at all
    wprev,      \* words and reverse as they were before the last write_dict
    hook,       \* the class of the writer: "generic" (StardictWriter's
                \* is_data_line) or "override" (a subclass's)
    source,     \* the lines of the source whose checksum is taken
    csum,       \* the checksum get_checksum returned for source, if called
    base,       \* the first source and its checksum
    cachefile,  \* the content of CONFIGFILE (~/.stardicter)
    cache0,     \* the content of CONFIGFILE at the start
    wcfg,       \* the writers that share the cache: options and source
    sumCache,   \* _checksum of every writer
    lastCall,   \* the last call that returned: which, whose, its result
    lastSaved,  \* key -> the checksum last saved under it
    pc,         \* where every writer is in save_checksum
    loaded,     \* config of save_config, of every writer
    wrote,      \* the writers in the order in which they wrote the file
    loadedAfter \* for every writer, how many writes its load came after

varsFormat == <<fwords, fprev, fres, fcalled>>

varsSort == <<skeys, sres, scalled>>

varsSource == <<lines, notags, bidirectional>>

varsObject == <<words, reverse, description, phase>>

varsDisk == <<files, firstFiles, written, wprev>>

varsWriter == <<varsSource, varsObject, varsDisk>>

varsChecksum == <<hook, source, csum, base>>

varsCache == <<cachefile, cache0, wcfg, sumCache, lastCall, lastSaved>>

varsRace == <<pc, loaded, wrote, loadedAfter>>

vars == <<varsFormat, ascii, varsSort, varsWriter, varsChecksum, varsCache,
          varsRace>>

\* The parts of the state a specification does not use.
IdleFormat ==
    /\ fwords = <<>>
    /\ fprev = <<>>
    /\ fres = [result |-> <<>>, words |-> <<>>, typed |-> EmptyTyped]
    /\ fcalled = FALSE

IdleSort ==
    /\ skeys = <<>>
    /\ sres = <<>>
    /\ scalled = FALSE

IdleWriter ==
    /\ lines = <<>>
    /\ notags = FALSE
    /\ bidirectional = FALSE
    /\ words = EmptyMap
    /\ reverse = EmptyMap
    /\ description = <<>>
    /\ phase = "new"
    /\ files = [readme |-> <<>>, fwd |-> NoFile, rev |-> NoFile]
    /\ firstFiles = files
    /\ written = FALSE
    /\ wprev = [words |-> EmptyMap, reverse |-> EmptyMap]

IdleChecksum ==
    /\ hook = "generic"
    /\ source = <<>>
    /\ csum = NoSum
    /\ base = [set |-> FALSE, source |-> <<>>, csum |-> NoSum]

IdleRace ==
    /\ pc = <<>>
    /\ loaded = <<>>
    /\ wrote = <<>>
    /\ loadedAfter = <<>>

IdleCache ==
    /\ cachefile = CacheFile("missing", EmptyCfg, <<>>)
    /\ cache0 = cachefile
    /\ wcfg = <<>>
    /\ sumCache = <<>>
    /\ lastCall = [op |-> "none", w |-> 0, result |-> "none"]
    /\ lastSaved = EmptyCfg
    /\ IdleRace

(***************************************************************************)
(* formatentry applied to bounded lists of Words.                          *)
(***************************************************************************)
\* wtype values: none, one marker, two markers in both orders, a repeated
\* marker, the irregular marker with and without a category, odd spacing.
EntryWTypes ==
    { <<>>,
      T_n,
      T_v \o <<32>> \o T_n,
      T_n \o <<32>> \o T_n,
      IRREGULAR,
      T_n \o <<32>> \o IRREGULAR,
      IRREGULAR \o <<32, 32>> \o T_v \o <<32>>,
      <<32>> \o T_num \o <<32, 120>> }

EntryWords ==
    { Word(<<97>>, t, ty, <<>>, <<>>) : t \in {<<98>>, <<99>>}, ty \in EntryWTypes }

InitFormat ==
    /\ fwords \in SeqsUpTo(EntryWords, MaxEntryWords) \ {<<>>}
    /\ fprev = fwords
    /\ fres = [result |-> <<>>, words |-> <<>>, typed |-> EmptyTyped]
    /\ fcalled = FALSE
    /\ ascii = FALSE
    /\ IdleSort
    /\ IdleWriter
    /\ IdleChecksum
    /\ IdleCache

FormatEntry ==
    /\ fcalled' = TRUE
    /\ fprev' = fwords
    /\ fres' = formatentry(fwords)
    /\ fwords' = fres'.words
    /\ UNCHANGED <<ascii, varsSort, varsWriter, varsChecksum, varsCache, varsRace>>

NextFormat == FormatEntry

SpecFormat == InitFormat /\ [][NextFormat]_vars

(***************************************************************************)
(* Properties of formatentry.                                              *)
(***************************************************************************)
Count(x, s) == Cardinality({i \in 1..Len(s) : s[i] = x})

\* The lines of a text that end in a line break, each without it.
Lines(text) ==
    LET ends == Sorted({i \in 1..Len(text) : text[i] = 10})
    IN  [n \in 1..Len(ends) |->
            SubSeq(text, (IF n = 1 THEN 0 ELSE ends[n - 1]) + 1, ends[n] - 1)]

\* The positions in alltypes of the category markers among the tokens of a
\* wtype (the catch-all '' is no marker).
MarkersOf(wtype) ==
    {k \in 1..(Len(alltypes) - 1) : InSeq(alltypes[k], split(wtype))}

IsIrregular(wtype) == InSeq(IRREGULAR, split(wtype))

\* The line formatentry emits for a Word.
EmittedLine(w) ==
    LET f == <<32, 32, 32, 32>> \o WordFormat(w) IN SubSeq(f, 1, Len(f) - 1)

\* The bucket the claim assigns to a wtype.
BucketOf(wtype) ==
    IF MarkersOf(wtype) = {} THEN T_none ELSE alltypes[Min(MarkersOf(wtype))]

\* C5: formatentry files every Word of its input in exactly one bucket, the
\* one of the earliest marker of alltypes among the tokens of its wtype (the
\* catch-all when there is none); exactly one occurrence of that token is
\* taken out of wtype and nothing else of the Word changes; and the Word is
\* emitted exactly once in the text returned.
C5_OneBucketEarliestMarker ==
    fcalled =>
        /\ Len(fres.words) = Len(fprev)
        /\ \A i \in 1..Len(fprev) :
            LET before == fprev[i]
                after  == fres.words[i]
                tokens == split(before.wtype)
                bucket == BucketOf(before.wtype)
            IN  /\ \A key \in Range(alltypes) :
                        Count(i, fres.typed[key]) = IF key = bucket THEN 1 ELSE 0
                /\ IF bucket = T_none
                   THEN after = before
                   ELSE /\ \E j \in 1..Len(tokens) :
                              /\ tokens[j] = bucket
                              /\ split(after.wtype) =
                                    SubSeq(tokens, 1, j - 1)
                                    \o SubSeq(tokens, j + 1, Len(tokens))
                        /\ after = [before EXCEPT !.wtype = after.wtype]
                /\ Count(EmittedLine(after), Lines(fres.result))
                     = Cardinality({j \in 1..Len(fprev) :
                                      EmittedLine(fres.words[j]) = EmittedLine(after)})

\* A Word with the two markers 'v:' and 'n:' has been filed under 'n:' alone.
C5_Witness ==
    /\ fcalled
    /\ \E i \in 1..Len(fprev) :
        /\ {1, 2} \subseteq MarkersOf(fprev[i].wtype)
        /\ InSeq(i, fres.typed[T_n])
        /\ ~InSeq(i, fres.typed[T_v])
        /\ split(fres.words[i].wtype) = <<T_v>>

\* Within the bucket of key, no Word without the irregular marker comes
\* before a Word with it.
IrregularFirstIn(key) ==
    LET bucket == fres.typed[key]
    IN  \A p \in 1..Len(bucket) : \A q \in (p + 1)..Len(bucket) :
            ~(/\ ~IsIrregular(fprev[bucket[p]].wtype)
              /\ IsIrregular(fprev[bucket[q]].wtype))

\* C3: in every bucket of formatentry, the eight typed ones and the
\* catch-all, every Word with the irregular marker is emitted before every
\* Word without it.
C3_IrregularFirstEveryBucket ==
    fcalled => \A key \in Range(alltypes) : IrregularFirstIn(key)

\* The same for the eight typed buckets only.
IrregularFirstTypedBuckets ==
    fcalled => \A key \in Range(alltypes) \ {T_none} : IrregularFirstIn(key)

\* An irregular Word has been put in front of a regular one in a typed bucket.
IrregularFirstTypedWitness ==
    /\ fcalled
    /\ \E i \in 1..Len(fprev) : \E j \in (i + 1)..Len(fprev) :
        /\ ~IsIrregular(fprev[i].wtype)
        /\ IsIrregular(fprev[j].wtype)
        /\ fres.typed[T_n] = <<j, i>>

(***************************************************************************)
(* getsortedwords applied to bounded mappings.                             *)
(***************************************************************************)
\* Keys: a, A, a-acute, A-acute, b, ab, Ab, a-acute b, c-caron.
SortKeys ==
    { <<97>>, <<65>>, <<225>>, <<193>>, <<98>>,
      <<97, 98>>, <<65, 98>>, <<225, 98>>, <<269>> }

\* The sequences without repetition over a set, up to a length.
OrdersOf(S, n) ==
    {o \in SeqsUpTo(S, n) : \A i, j \in 1..Len(o) : i # j => o[i] # o[j]}

InitSort ==
    /\ ascii \in BOOLEAN
    /\ skeys \in OrdersOf(SortKeys, MaxSortKeys) \ {<<>>}
    /\ sres = <<>>
    /\ scalled = FALSE
    /\ IdleFormat
    /\ IdleWriter
    /\ IdleChecksum
    /\ IdleCache

GetSortedWords ==
    /\ scalled = FALSE
    /\ scalled' = TRUE
    /\ sres' = getsortedwords(ascii, skeys)
    /\ UNCHANGED <<varsFormat, ascii, skeys, varsWriter, varsChecksum, varsCache,
                   varsRace>>

NextSort == GetSortedWords

SpecSort == InitSort /\ [][NextSort]_vars

\* a <= b on byte strings.
LexLeq(a, b) == a = b \/ LexLess(a, b)

\* C9: getsortedwords returns every key of the mapping exactly once and
\* untransformed, in non-decreasing order of the transformed sort key; keys
\* with equal sort keys are ordered by the bytes of their original (UTF-8
\* encoded) form; and the result does not depend on the order in which the
\* mapping is iterated.
C9_SortedPermutation ==
    scalled =>
        /\ Len(sres) = Len(skeys)
        /\ Range(sres) = Range(skeys)
        /\ \A i \in 1..(Len(sres) - 1) :
            LET ka == SortKey(ascii, sres[i])
                kb == SortKey(ascii, sres[i + 1])
            IN  /\ LexLeq(ka, kb)
                /\ ka = kb => LexLess(EncodeUtf8(sres[i]), EncodeUtf8(sres[i + 1]))
        /\ \A o \in IterationOrders(Range(skeys)) :
            getsortedwords(ascii, o) = sres

\* Two keys with the same sort key were handed over in the order opposite to
\* that of their bytes, and come out in the order of their bytes.
C9_Witness ==
    /\ scalled
    /\ \E i \in 1..Len(skeys) : \E j \in (i + 1)..Len(skeys) :
        /\ SortKey(ascii, skeys[i]) = SortKey(ascii, skeys[j])
        /\ LexLess(EncodeUtf8(skeys[j]), EncodeUtf8(skeys[i]))
    /\ \E i \in 1..(Len(sres) - 1) :
        /\ SortKey(ascii, sres[i]) = SortKey(ascii, sres[i + 1])
        /\ sres[i] # sres[i + 1]

(***************************************************************************)
(* The pipeline: a writer is built on a source, parses it and writes the   *)
(* dictionary; write_dict may be called again on the same writer, and a    *)
(* new writer may be built on the same source and options.                 *)
(***************************************************************************)
\* A source line "word<TAB>translation<TAB>wtype<TAB>note<TAB>author".
SourceLine(w, t, ty, n, a) == w \o <<9>> \o t \o <<9>> \o ty \o <<9>> \o n \o <<9>> \o a

\* a/b/n:, a/c/v: n: with a note, A/b/[neprav.], a-acute/<i>b, a header,
\* b/a/n: [neprav.].
SourceLines ==
    { SourceLine(<<97>>, <<98>>, T_n, <<>>, <<>>),
      SourceLine(<<97>>, <<99>>, T_v \o <<32>> \o T_n, <<120>>, <<>>),
      SourceLine(<<65>>, <<98>>, IRREGULAR, <<>>, <<>>),
      SourceLine(<<225>>, <<60, 105, 62, 98>>, <<>>, <<>>, <<>>),
      <<35, 32, 100>>,
      SourceLine(<<98>>, <<97>>, T_n \o <<32>> \o IRREGULAR, <<>>, <<>>) }

NoFiles == [readme |-> <<>>, fwd |-> NoFile, rev |-> NoFile]

InitWriterObject ==
    /\ words = EmptyMap
    /\ reverse = EmptyMap
    /\ description = <<>>
    /\ phase = "new"

InitDisk ==
    /\ files = NoFiles
    /\ firstFiles = NoFiles
    /\ written = FALSE
    /\ wprev = [words |-> EmptyMap, reverse |-> EmptyMap]

InitWriter ==
    /\ ascii \in BOOLEAN
    /\ notags \in BOOLEAN
    /\ bidirectional \in BOOLEAN
    /\ lines \in SeqsUpTo(SourceLines, MaxSourceLines)
    /\ InitWriterObject
    /\ InitDisk
    /\ IdleFormat
    /\ IdleSort
    /\ IdleChecksum
    /\ IdleCache

\* parse(), called once on a writer.
Parse ==
    /\ phase = "new"
    /\ LET st == parse([words |-> words, reverse |-> reverse,
                        description |-> description], bidirectional, lines)
       IN  /\ words' = st.words
           /\ reverse' = st.reverse
           /\ description' = st.description
    /\ phase' = "parsed"
    /\ UNCHANGED <<varsFormat, ascii, varsSort, varsSource, varsDisk, varsChecksum,
                   varsCache, varsRace>>

\* write_dict(directory) on a parsed writer: the README, the forward
\* dictionary and, for a bidirectional writer, the reverse one.
WriteDict ==
    /\ phase \in {"parsed", "written", "rewritten"}
    /\ \E f \in {write_words(ascii, notags, words, fo) :
                    fo \in IterationOrders(DOMAIN words)} :
       \E r \in {write_words(ascii, notags, reverse, ro) :
                    ro \in IterationOrders(DOMAIN reverse)} :
        /\ files' = [readme |-> description,
                     fwd    |-> FileOf(f),
                     rev    |-> IF bidirectional THEN FileOf(r) ELSE files.rev]
        /\ words' = f.mapping
        /\ reverse' = IF bidirectional THEN r.mapping ELSE reverse
    /\ wprev' = [words |-> words, reverse |-> reverse]
    /\ firstFiles' = IF written THEN firstFiles ELSE files'
    /\ written' = TRUE
    /\ phase' = IF phase = "parsed" THEN "written" ELSE "rewritten"
    /\ UNCHANGED <<varsFormat, ascii, varsSort, varsSource, description,
                   varsChecksum, varsCache, varsRace>>

\* StardictWriter(ascii, notags, ...) again, on the same source.
NewWriter ==
    /\ phase # "new"
    /\ words' = EmptyMap
    /\ reverse' = EmptyMap
    /\ description' = <<>>
    /\ phase' = "new"
    /\ UNCHANGED <<varsFormat, ascii, varsSort, varsSource, varsDisk, varsChecksum,
                   varsCache, varsRace>>

NextWriter == Parse \/ WriteDict \/ NewWriter

SpecWriter == InitWriter /\ [][NextWriter]_vars

(***************************************************************************)
(* parse applied to sources with keys around the length guard.             *)
(***************************************************************************)
LongText(n) == [i \in 1..n |-> 97]

\* a/b, an untranslated word, a word without headword, headwords of 255 and
\* of 256 characters, translations of 255 and of 256 characters, a header,
\* a blank line, a line without tabs.
GuardLines ==
    { SourceLine(<<97>>, <<98>>, T_n, <<>>, <<>>),
      SourceLine(<<97>>, <<>>, <<>>, <<>>, <<>>),
      SourceLine(<<>>, <<98>>, <<>>, <<>>, <<>>),
      SourceLine(LongText(255), <<98>>, <<>>, <<>>, <<>>),
      SourceLine(LongText(256), <<98>>, <<>>, <<>>, <<>>),
      SourceLine(<<99>>, LongText(255), <<>>, <<>>, <<>>),
      SourceLine(<<99>>, LongText(256), <<>>, <<>>, <<>>),
      <<35, 32, 100>>,
      <<32, 32>>,
      <<97, 98>> }

InitParse ==
    /\ ascii = FALSE
    /\ notags = FALSE
    /\ bidirectional \in BOOLEAN
    /\ lines \in SeqsUpTo(GuardLines, MaxGuardLines)
    /\ InitWriterObject
    /\ InitDisk
    /\ IdleFormat
    /\ IdleSort
    /\ IdleChecksum
    /\ IdleCache

NextParse == Parse

SpecParse == InitParse /\ [][NextParse]_vars

(***************************************************************************)
(* Properties of parse.                                                    *)
(***************************************************************************)
\* The Words parse_line yields for the data lines of the source.
ParsedWords ==
    UNION {Range(parse_line(lines[i])) :
              i \in {j \in 1..Len(lines) :
                        ~IsBlank(lines[j]) /\ ~is_header_line(lines[j])}}

Translated(w) == w.word # <<>> /\ w.translation # <<>>

\* C4: after parse, a parsed Word with non-empty headword and translation is
\* in the forward mapping under its headword if and only if the headword has
\* fewer than 256 characters; every key of the forward and of the reverse
\* mapping has fewer than 256 characters and maps only to Words with
\* non-empty headword and translation.
C4_LengthGuard ==
    phase = "parsed" =>
        /\ \A w \in ParsedWords :
            Translated(w) =>
                ((w.word \in DOMAIN words /\ InSeq(w, words[w.word]))
                    <=> Len(w.word) < 256)
        /\ \A m \in {words, reverse} : \A key \in DOMAIN m :
            /\ Len(key) <= 255
            /\ \A i \in 1..Len(m[key]) :
                Translated(m[key][i]) /\ m[key][i].word = key

\* A headword of 255 characters is a key and one of 256 characters is not.
C4_Witness ==
    /\ phase = "parsed"
    /\ LongText(255) \in DOMAIN words
    /\ \E w \in ParsedWords :
        Translated(w) /\ Len(w.word) = 256 /\ w.word \notin DOMAIN words

(***************************************************************************)
(* Properties of write_words and write_dict.                               *)
(***************************************************************************)
\* The number four bytes stand for, most significant first.
Unpack(b) == ((b[1] * 256 + b[2]) * 256 + b[3]) * 256 + b[4]

\* The records of an index stream from position p on: the key up to the
\* zero byte, then the offset and the length.
RECURSIVE IndexRecords(_, _)
IndexRecords(idx, p) ==
    IF p > Len(idx) THEN <<>>
    ELSE LET z == Min({i \in p..Len(idx) : idx[i] = 0})
         IN  <<[key    |-> SubSeq(idx, p, z - 1),
                offset |-> Unpack(SubSeq(idx, z + 1, z + 4)),
                length |-> Unpack(SubSeq(idx, z + 5, z + 8))]>>
             \o IndexRecords(idx, z + 9)

\* The keys of a mapping in collated order.
Collated(mapping) ==
    getsortedwords(ascii, CHOOSE o \in IterationOrders(DOMAIN mapping) : TRUE)

\* The bytes of the entry of a key of a mapping.
EntryBytes(mapping, key) ==
    convert(ascii, notags, formatentry(mapping[key]).result)

\* The package file holds the mapping: one index record per key, in
\* collated order, each pointing at its entry, the entries back to back.
Contiguous(file, mapping) ==
    LET recs == IndexRecords(file.idx, 1)
        keys == Collated(mapping)
    IN  /\ Len(recs) = Cardinality(DOMAIN mapping)
        /\ file.ifo.wordcount = Len(recs)
        /\ file.ifo.idxfilesize = Len(file.idx)
        /\ \A i \in 1..Len(recs) :
            /\ recs[i].key = convert(ascii, notags, keys[i])
            /\ recs[i].length = Len(EntryBytes(mapping, keys[i]))
            /\ recs[i].offset =
                  IF i = 1 THEN 0 ELSE recs[i - 1].offset + recs[i - 1].length
            /\ SubSeq(file.dict, recs[i].offset + 1, recs[i].offset + recs[i].length)
                  = EntryBytes(mapping, keys[i])
        /\ Len(file.dict) =
              IF recs = <<>> THEN 0
              ELSE recs[Len(recs)].offset + recs[Len(recs)].length

\* C1: write_words writes the index and the data in the same collated key
\* order, one index record per key; the first offset is 0, every length is
\* the byte length of the converted formatted entry of its key, every next
\* offset is the previous offset plus the previous length, and the last
\* offset plus length is the size of the data, so that
\* data[offset : offset+length] is the entry of the key.
C1_ContiguousIndex ==
    written =>
        /\ Contiguous(files.fwd, wprev.words)
        /\ bidirectional => Contiguous(files.rev, wprev.reverse)

\* A package with two entries has been written whose second entry starts
\* where the first ends, one entry being longer in bytes than in characters.
C1_Witness ==
    /\ written
    /\ ~ascii
    /\ LET recs == IndexRecords(files.fwd.idx, 1)
       IN  /\ Len(recs) >= 2
           /\ recs[2].offset = recs[1].length
           /\ recs[2].offset > 0
           /\ \E key \in DOMAIN wprev.words :
                Len(EntryBytes(wprev.words, key))
                    # Len(formatentry(wprev.words[key]).result)

\* C2: two runs of the package writer on the same source and options leave
\* the same .idx and .dict, be the second run that of a newly parsed writer
\* or a second write_dict on the writer of the first run.
C2_RunsIdentical ==
    written =>
        /\ files.fwd.idx = firstFiles.fwd.idx
        /\ files.fwd.dict = firstFiles.fwd.dict
        /\ files.rev.idx = firstFiles.rev.idx
        /\ files.rev.dict = firstFiles.rev.dict

\* The same for the runs that are the first write_dict of their writer.
FirstRunsIdentical ==
    phase = "written" => files = firstFiles

\* A second writer has parsed the source and written the files of the first.
FirstRunsIdenticalWitness ==
    /\ phase = "written"
    /\ files = firstFiles
    /\ files.fwd.dict # <<>>
    /\ wprev.words # words

(***************************************************************************)
(* get_checksum on a source and on a changed source.                       *)
(***************************************************************************)
\* Lines: a, b, ab, and two lines that the overriding hook leaves out:
\* #1, #2.
ChecksumLines == { <<97>>, <<98>>, <<97, 98>>, <<35, 49>>, <<35, 50>> }

InitChecksum ==
    /\ hook \in {"generic", "override"}
    /\ source \in SeqsUpTo(ChecksumLines, MaxChecksumLines)
    /\ csum = NoSum
    /\ base = [set |-> FALSE, source |-> <<>>, csum |-> NoSum]
    /\ IdleFormat
    /\ ascii = FALSE
    /\ IdleSort
    /\ IdleWriter
    /\ IdleCache

\* get_checksum() on the writer of the current source.
GetChecksum ==
    /\ ~csum.set
    /\ csum' = [set |-> TRUE, value |-> get_checksum(hook, source)]
    /\ UNCHANGED <<varsFormat, ascii, varsSort, varsWriter, hook, source, base,
                   varsCache, varsRace>>

\* The source is fetched again, changed or not, by a new writer; the first
\* source and its checksum are kept for comparison.
NewSource ==
    /\ csum.set
    /\ ~base.set
    /\ \E ls \in SeqsUpTo(ChecksumLines, MaxChecksumLines) :
        source' = ls
    /\ csum' = NoSum
    /\ base' = [set |-> TRUE, source |-> source, csum |-> csum]
    /\ UNCHANGED <<varsFormat, ascii, varsSort, varsWriter, hook, varsCache, varsRace>>

NextChecksum == GetChecksum \/ NewSource

SpecChecksum == InitChecksum /\ [][NextChecksum]_vars

(***************************************************************************)
(* Properties of get_checksum.                                             *)
(***************************************************************************)
\* The lines of a source for which is_data_line is true, in order.
DataLines(ls) ==
    LET at == Sorted({i \in 1..Len(ls) : IsDataLine(hook, ls[i])})
    IN  [n \in 1..Len(at) |-> ls[at[n]]]

\* b is a with one data line replaced by a different data line.
OneDataLineReplaced(a, b) ==
    /\ Len(a) = Len(b)
    /\ \E i \in 1..Len(a) :
        /\ a[i] # b[i]
        /\ IsDataLine(hook, a[i])
        /\ IsDataLine(hook, b[i])
        /\ \A j \in 1..Len(a) : j # i => a[j] = b[j]

Compared == base.set /\ csum.set

\* C6: the checksum is a function of the data lines of the source: over the
\* same lines it is the same, any change to the sequence of data lines
\* changes it (the digest taken to be free of collisions), and a change to
\* other lines only leaves it as it is.
C6_AnyChangeOfDataLines ==
    Compared =>
        /\ source = base.source => csum.value = base.csum.value
        /\ DataLines(source) # DataLines(base.source)
              => csum.value # base.csum.value
        /\ DataLines(source) = DataLines(base.source)
              => csum.value = base.csum.value

\* C6 as amended: the checksum is a function of the concatenation of the
\* data lines: over the same lines it is the same, replacing one data line
\* by a different data line changes it, a change to other lines only leaves
\* it as it is, and so does a change of the data lines that keeps their
\* concatenation (the line breaks are not part of the digest).
C6_ConcatenationOfDataLines ==
    Compared =>
        /\ source = base.source => csum.value = base.csum.value
        /\ OneDataLineReplaced(base.source, source)
              => csum.value # base.csum.value
        /\ DataLines(source) = DataLines(base.source)
              => csum.value = base.csum.value
        /\ csum.value = base.csum.value
              <=> Flatten(DataLines(source)) = Flatten(DataLines(base.source))

\* Both cases have been compared: a source with a data line replaced, and,
\* under the overriding hook, a source that differs in other lines only.
C6_Witness ==
    /\ Compared
    /\ hook = "override"
    /\ source # base.source
    /\ DataLines(source) = DataLines(base.source)
    /\ DataLines(source) # <<>>
    /\ csum.value = base.csum.value

(***************************************************************************)
(* The checksum cache used by several writers, one call at a time.         *)
(***************************************************************************)
Writers == 1..NumWriters

\* Two sources.
SourceA == <<<<97>>>>
SourceB == <<<<98>>>>

\* The writers: two on the same key with different sources, one with a key
\* prefix, one with the ascii option.
WriterConfigs ==
    { [keyprefix |-> "",  ascii |-> FALSE, notags |-> FALSE, lines |-> SourceA],
      [keyprefix |-> "",  ascii |-> FALSE, notags |-> FALSE, lines |-> SourceB],
      [keyprefix |-> "x", ascii |-> FALSE, notags |-> FALSE, lines |-> SourceA],
      [keyprefix |-> "",  ascii |-> TRUE,  notags |-> TRUE,  lines |-> SourceA] }

Stale == md5_hexdigest(<<111>>)

\* Caches a run can find: readable ones, with and without an entry of one
\* of the writers and of another dictionary.
ReadableCaches ==
    { CacheFile("object", EmptyCfg, <<>>),
      CacheFile("object", "md5-aa-bb" :> Stale, <<>>),
      CacheFile("object", "md5-cs-en" :> Stale, <<>>),
      CacheFile("object", "md5-aa-bb" :> get_checksum("generic", SourceA), <<>>) }

\* No cache, and caches that are no persisted mapping.
BrokenCaches ==
    { CacheFile("missing", EmptyCfg, <<>>),
      CacheFile("garbage", EmptyCfg, <<>>),
      CacheFile("array", EmptyCfg, <<>>),
      CacheFile("array", EmptyCfg, <<"md5-aa-bb">>),
      CacheFile("number", EmptyCfg, <<>>),
      CacheFile("null", EmptyCfg, <<>>) }

NoCall == [op |-> "none", w |-> 0, result |-> "none"]

InitCacheCommon ==
    /\ cache0 = cachefile
    /\ wcfg \in [Writers -> WriterConfigs]
    /\ sumCache = [w \in Writers |-> NoSum]
    /\ lastCall = NoCall
    /\ lastSaved = EmptyCfg
    /\ IdleFormat
    /\ ascii = FALSE
    /\ IdleSort
    /\ IdleWriter
    /\ IdleChecksum

InitCache ==
    /\ cachefile \in ReadableCaches \cup BrokenCaches
    /\ InitCacheCommon
    /\ IdleRace

\* The property checksum: get_checksum() on first use, kept in _checksum.
Checksum(w) ==
    IF sumCache[w].set THEN sumCache[w].value
    ELSE get_checksum("generic", wcfg[w].lines)

Cached(w) == [sumCache EXCEPT ![w] = [set |-> TRUE, value |-> Checksum(w)]]

\* was_changed() by writer w; self.checksum is read only when the key is
\* in the cache.
WasChanged(w) ==
    LET key == get_config_key(wcfg[w])
        res == was_changed(cachefile, key, Checksum(w))
    IN  /\ lastCall' = [op |-> "was_changed", w |-> w, result |-> res]
        /\ sumCache' = IF res \in {"True", "False"}
                          /\ key \in DOMAIN load_config(cachefile).map
                       THEN Cached(w) ELSE sumCache
        /\ UNCHANGED <<varsFormat, ascii, varsSort, varsWriter, varsChecksum,
                       cachefile, cache0, wcfg, lastSaved, varsRace>>

\* save_checksum() by writer w, from the call to its return.
SaveChecksum(w) ==
    LET key == get_config_key(wcfg[w])
        res == save_config(cachefile, key :> Checksum(w))
    IN  /\ cachefile' = res.file
        /\ sumCache' = Cached(w)
        /\ lastCall' = [op |-> "save_checksum", w |-> w,
                        result |-> IF res.raised THEN "raised" ELSE "None"]
        /\ lastSaved' = IF res.raised THEN lastSaved
                        ELSE (key :> Checksum(w)) @@ lastSaved
        /\ UNCHANGED <<varsFormat, ascii, varsSort, varsWriter, varsChecksum,
                       cache0, wcfg, varsRace>>

NextCache ==
    \/ \E w \in Writers : WasChanged(w)
    \/ \E w \in Writers : SaveChecksum(w)

SpecCache == InitCache /\ [][NextCache]_vars

(***************************************************************************)
(* Properties of the cache, one call at a time.                            *)
(***************************************************************************)
\* The first mapping with the entries of the second put over it.
Merged(old, new) == new @@ old

\* C7: after any sequence of save_checksum calls that do not overlap, on a
\* cache that was readable, the cache maps every key to the checksum saved
\* under it last and keeps every entry it had under a key never saved; and
\* a was_changed that follows under a key whose saved checksum is that of
\* the writer's source returns False.
C7_SaveMerges ==
    cache0.kind = "object" =>
        /\ lastCall.result # "raised"
        /\ cachefile.kind = "object"
        /\ cachefile.map = Merged(cache0.map, lastSaved)
        /\ \A k \in DOMAIN cache0.map \ DOMAIN lastSaved :
            k \in DOMAIN cachefile.map /\ cachefile.map[k] = cache0.map[k]
        /\ (/\ lastCall.op = "was_changed"
            /\ get_config_key(wcfg[lastCall.w]) \in DOMAIN lastSaved
            /\ lastSaved[get_config_key(wcfg[lastCall.w])]
                  = get_checksum("generic", wcfg[lastCall.w].lines))
              => lastCall.result = "False"

\* Two writers have saved under two keys into a cache that held the entry of
\* another dictionary, and a was_changed has then returned False.
C7_Witness ==
    /\ cache0.kind = "object"
    /\ "md5-cs-en" \in DOMAIN cache0.map
    /\ Cardinality(DOMAIN lastSaved) = 2
    /\ Cardinality(DOMAIN cachefile.map) = 3
    /\ lastCall.op = "was_changed"
    /\ lastCall.result = "False"

\* What the claim says of a run that found the cache in state c0.
Recovered(c0) ==
    lastCall.op # "none" =>
        /\ load_config(c0) = PyValue("dict", EmptyCfg, <<>>)
        /\ lastCall.result # "raised"
        /\ (lastCall.op = "was_changed" /\ lastSaved = EmptyCfg)
              => lastCall.result = "True"
        /\ lastSaved # EmptyCfg => cachefile = json_dump(lastSaved)

\* C8: with the cache file missing or corrupt (unreadable, or not a
\* persisted mapping), load_config gives an empty mapping, was_changed
\* returns True, a save_checksum that follows leaves a cache with just the
\* entries saved, and no error reaches the caller.
C8_BrokenCacheRecovered ==
    cache0.kind # "object" => Recovered(cache0)

\* The same for a cache file that is missing or is no JSON at all.
MissingOrInvalidCacheRecovered ==
    cache0.kind \in {"missing", "garbage"} => Recovered(cache0)

MissingOrInvalidCacheWitness ==
    /\ cache0.kind = "garbage"
    /\ lastSaved # EmptyCfg
    /\ cachefile = json_dump(lastSaved)

(***************************************************************************)
(* save_checksum by several writers at once: between load_config and the   *)
(* writing of the file in save_config other writers may run.               *)
(***************************************************************************)
InitRace ==
    /\ cachefile \in { CacheFile("missing", EmptyCfg, <<>>),
                       CacheFile("object", EmptyCfg, <<>>),
                       CacheFile("object", "md5-aa-bb" :> Stale, <<>>),
                       CacheFile("object", "md5-cs-en" :> Stale, <<>>) }
    /\ InitCacheCommon
    /\ pc = [w \in Writers |-> "idle"]
    /\ loaded = [w \in Writers |-> PyValue("None", EmptyCfg, <<>>)]
    /\ wrote = <<>>
    /\ loadedAfter = [w \in Writers |-> 0]

\* save_checksum up to "config = self.load_config()" in save_config.
SaveLoad(w) ==
    /\ pc[w] = "idle"
    /\ sumCache' = Cached(w)
    /\ loaded' = [loaded EXCEPT ![w] = load_config(cachefile)]
    /\ loadedAfter' = [loadedAfter EXCEPT ![w] = Len(wrote)]
    /\ pc' = [pc EXCEPT ![w] = "loaded"]
    /\ UNCHANGED <<varsFormat, ascii, varsSort, varsWriter, varsChecksum,
                   cachefile, cache0, wcfg, lastCall, lastSaved, wrote>>

\* The rest of save_config: config.update(changes) and the file written.
SaveWrite(w) ==
    /\ pc[w] = "loaded"
    /\ LET key == get_config_key(wcfg[w])
           res == save_loaded(cachefile, loaded[w], key :> Checksum(w))
       IN  /\ cachefile' = res.file
           /\ lastCall' = [op |-> "save_checksum", w |-> w,
                           result |-> IF res.raised THEN "raised" ELSE "None"]
           /\ lastSaved' = IF res.raised THEN lastSaved
                           ELSE (key :> Checksum(w)) @@ lastSaved
    /\ wrote' = Append(wrote, w)
    /\ pc' = [pc EXCEPT ![w] = "done"]
    /\ UNCHANGED <<varsFormat, ascii, varsSort, varsWriter, varsChecksum,
                   cache0, wcfg, sumCache, loaded, loadedAfter>>

NextRace ==
    \/ \E w \in Writers : SaveLoad(w)
    \/ \E w \in Writers : SaveWrite(w)

SpecRace == InitRace /\ [][NextRace]_vars

(***************************************************************************)
(* Properties of overlapping save_checksum calls.                          *)
(***************************************************************************)
AllDone == \A w \in Writers : pc[w] = "done"

DistinctKeys ==
    \A v, w \in Writers : v # w => get_config_key(wcfg[v]) # get_config_key(wcfg[w])

\* Every writer has loaded the cache before any writer wrote it.
AllLoadedFirst == \A w \in Writers : loadedAfter[w] = 0

\* C10: save_config loads, merges and writes the whole cache without a
\* lock: when writers with distinct keys all load before any of them
\* writes, the cache ends with the entry of the last writer only, and the
\* entries the other writers saved are lost (their keys are as the cache
\* had them at the start).
C10_LostUpdate ==
    (AllDone /\ DistinctKeys /\ AllLoadedFirst) =>
        LET last == wrote[Len(wrote)]
            key  == get_config_key(wcfg[last])
        IN  /\ cachefile.kind = "object"
            /\ cachefile.map =
                  Merged(load_config(cache0).map,
                         key :> get_checksum("generic", wcfg[last].lines))
            /\ \A w \in Writers \ {last} :
                LET k == get_config_key(wcfg[w])
                IN  IF k \in DOMAIN cache0.map
                    THEN cachefile.map[k] = cache0.map[k]
                    ELSE k \notin DOMAIN cachefile.map

\* Two save_checksum calls with distinct keys have both returned, both had
\* loaded before either wrote, and the cache lacks one of the two entries.
C10_Witness ==
    /\ AllDone
    /\ DistinctKeys
    /\ AllLoadedFirst
    /\ lastCall.result = "None"
    /\ \E w \in Writers : get_config_key(wcfg[w]) \notin DOMAIN cachefile.map

=============================================================================
